---------------------------- MODULE Spec2Model ----------------------------
(***************************************************************************)
(* Model of the glow low-level IR builder (IRBuilder.cpp) and of the       *)
(* per-instruction verifier (Instrs.cpp).                                  *)
(*                                                                         *)
(* A Module owns a type registry, a list of buffer declarations            *)
(* (StaticVariable) and a list of instructions.  A Value* is modelled as   *)
(* [mod, idx]: the owning module and the position in its variable list.    *)
(* A TypeRef is modelled as [mod, idx]: the registry that holds the Type   *)
(* and its position there; pointer equality is equality of these records.  *)
(* assert() is modelled as compiled in: a failed assertion ends the        *)
(* process (aborted).                                                      *)
(***************************************************************************)
EXTENDS Integers, Sequences, FiniteSets, TLC

VARIABLES
  modTypes,   \* modTypes[m]:  the types interned by module m, in creation order
  modVars,    \* modVars[m]:   the StaticVariables pushed to module m
  modInstrs,  \* modInstrs[m]: the instructions pushed to module m
  aborted,    \* TRUE once an assert() of a builder call has failed
  log         \* the builder calls made so far, oldest first

vars == <<modTypes, modVars, modInstrs, aborted, log>>

\* Number of builder calls a client makes in one run.
MaxCalls == 3

\* Largest number of inputs handed to one createConcatOp call.
MaxConcat == 3

\* The modules a client program builds (each through its own IRBuilder).
Modules == {1, 2}

\* The state of all modules, passed through the builder's helper calls.
World == [T |-> modTypes, V |-> modVars, I |-> modInstrs]

-----------------------------------------------------------------------------
(* Values, types and shapes *)

\* Value::getType(): the TypeRef stored in the variable.
getType(W, v) == W.V[v.mod][v.idx].type

\* The Type a TypeRef points to.
TypeAt(W, t) == W.T[t.mod][t.idx]

\* Value::dims()
dims(W, v) == TypeAt(W, getType(W, v)).dims

\* Value::getElementType()
getElementType(W, v) == TypeAt(W, getType(W, v)).elem

RECURSIVE Prod(_)
\* Product of the extents of a shape (Type::size()).
Prod(s) == IF s = <<>> THEN 1 ELSE Head(s) * Prod(Tail(s))

\* Type::size(): total number of elements.
size(W, t) == Prod(TypeAt(W, t).dims)

\* ShapeNHWC(dims): a rank-4 shape read as batch, height, width, channels.
ShapeNHWC(d) == [n |-> d[1], h |-> d[2], w |-> d[3], c |-> d[4]]

\* ConvNode::calculateOutputDims(sx, sy, pad, filterSize, stride)
calculateOutputDims(sx, sy, pad, filterSize, stride) ==
  << ((sx + pad * 2 - filterSize) \div stride) + 1,
     ((sy + pad * 2 - filterSize) \div stride) + 1 >>

\* flattenCdr(dims): {dims[0], product of the other extents}
flattenCdr(d) == <<d[1], Prod(Tail(d))>>

\* The values (buffer declarations) of module m.
ValuesOf(m) == {[mod |-> m, idx |-> i] : i \in 1..Len(modVars[m])}

\* Every value of every module.
AllValues == UNION {ValuesOf(m) : m \in Modules}

\* The permutations of 0..n-1, as the ArrayRef<unsigned> shuffle[0..n-1].
Perms(n) ==
  {p \in [1..n -> 0..(n-1)] : \A i, j \in 1..n : p[i] = p[j] => i = j}

\* The sequences over S of length 1..n.
SeqsUpTo(S, n) == UNION {[1..k -> S] : k \in 1..n}

-----------------------------------------------------------------------------
(* Module: type interning and the two lists *)

\* Position of the Type (elemTy, d) in the registry of module m, 0 if absent.
FindType(W, m, elemTy, d) ==
  LET hits == {i \in 1..Len(W.T[m]) :
                 W.T[m][i] = [elem |-> elemTy, dims |-> d]}
  IN IF hits = {} THEN 0 ELSE CHOOSE i \in hits : TRUE

\* A registry that never reuses a Type: every request allocates a new one.
uniqueTypeFresh(W, m, elemTy, d) ==
  [W   |-> [W EXCEPT !.T[m] = Append(@, [elem |-> elemTy, dims |-> d])],
   ref |-> [mod |-> m, idx |-> Len(W.T[m]) + 1]]

\* Module::uniqueType(elemTy, dims): the interned Type, added if missing.
uniqueType(W, m, elemTy, d) ==
  LET i == FindType(W, m, elemTy, d)
  IN IF i # 0
     THEN [W |-> W, ref |-> [mod |-> m, idx |-> i]]
     ELSE uniqueTypeFresh(W, m, elemTy, d)

\* Module::pushVar(A)
pushVar(W, m, A) == [W EXCEPT !.V[m] = Append(@, A)]

\* Module::pushInstr(A)
pushInstr(W, m, A) == [W EXCEPT !.I[m] = Append(@, A)]

\* new StaticVariable(T, initKind, shareKind, val); val is kept in tenths
\* (Broadcast 0.1 is 1, Xavier fan-in f is 10*f).
StaticVariable(T, name, initKind, shareKind, val) ==
  [type |-> T, name |-> name, initKind |-> initKind,
   shareKind |-> shareKind, val |-> val]

\* createStaticVariable without interning: a new Type for every declaration.
createStaticVariableNoIntern(W, m, elemTy, d, name, initKind, shareKind, val) ==
  LET u == uniqueTypeFresh(W, m, elemTy, d)
  IN [W   |-> pushVar(u.W, m,
                      StaticVariable(u.ref, name, initKind, shareKind, val)),
      ref |-> [mod |-> m, idx |-> Len(W.V[m]) + 1]]

\* IRBuilder::createStaticVariable(elemTy, dims, name, initKind, shareKind, val)
createStaticVariable(W, m, elemTy, d, name, initKind, shareKind, val) ==
  LET u == uniqueType(W, m, elemTy, d)
  IN [W   |-> pushVar(u.W, m,
                      StaticVariable(u.ref, name, initKind, shareKind, val)),
      ref |-> [mod |-> m, idx |-> Len(W.V[m]) + 1]]

\* IRBuilder::createStaticVariable(T, name, initKind, shareKind, val): the
\* TypeRef is stored as given and the name is not set.
createStaticVariableT(W, m, T, name, initKind, shareKind, val) ==
  [W   |-> pushVar(W, m, StaticVariable(T, "", initKind, shareKind, val)),
   ref |-> [mod |-> m, idx |-> Len(W.V[m]) + 1]]

\* The header's default arguments: name "", kExtern, kActivation, 0.
createStaticVariableDef(W, m, elemTy, d, name) ==
  createStaticVariable(W, m, elemTy, d, name, "kExtern", "kActivation", 0)

\* The TypeRef overload with the header's default arguments.
createStaticVariableTDef(W, m, T, name) ==
  createStaticVariableT(W, m, T, name, "kExtern", "kActivation", 0)

-----------------------------------------------------------------------------
(* Low level instructions: allocate the instruction, push it to the module. *)
(* Operand 0 is the destination; the other operands follow in the order of  *)
(* the constructor's arguments (the order verify() reads them in).          *)

\* createCopyInst that forgets to push the instruction to the module.
createCopyInstNoPush(W, m, dest, src) == W

\* IRBuilder::createCopyInst(dest, src)
createCopyInst(W, m, dest, src) ==
  pushInstr(W, m, [kind |-> "Copy", ops |-> <<dest, src>>])

\* IRBuilder::createConvolutionInst(dest, src, filter, bias, kernel, stride, pad, depth)
createConvolutionInst(W, m, dest, src, filter, bias, kernel, stride, pad, depth) ==
  pushInstr(W, m, [kind |-> "Convolution", ops |-> <<dest, src, filter, bias>>,
                   kernel_ |-> kernel, stride_ |-> stride, pad_ |-> pad,
                   depth_ |-> depth])

\* IRBuilder::createPoolInst(dest, src, srcXY, kind, kernel, stride, pad)
createPoolInst(W, m, dest, src, srcXY, kind, kernel, stride, pad) ==
  pushInstr(W, m, [kind |-> "Pool", ops |-> <<dest, src, srcXY>>,
                   kind_ |-> kind, kernel_ |-> kernel, stride_ |-> stride,
                   pad_ |-> pad])

\* IRBuilder::createFullyConnectedInst(dest, src, filter, bias, depth)
createFullyConnectedInst(W, m, dest, src, filter, bias, depth) ==
  pushInstr(W, m, [kind |-> "FullyConnected",
                   ops |-> <<dest, src, filter, bias>>, depth_ |-> depth])

\* IRBuilder::createReluInst(dest, src)
createReluInst(W, m, dest, src) ==
  pushInstr(W, m, [kind |-> "Relu", ops |-> <<dest, src>>])

\* IRBuilder::createSigmoidInst(dest, src)
createSigmoidInst(W, m, dest, src) ==
  pushInstr(W, m, [kind |-> "Sigmoid", ops |-> <<dest, src>>])

\* IRBuilder::createTanhInst(dest, src)
createTanhInst(W, m, dest, src) ==
  pushInstr(W, m, [kind |-> "Tanh", ops |-> <<dest, src>>])

\* IRBuilder::createSoftMaxInst(dest, src, E, selected)
createSoftMaxInst(W, m, dest, src, E, selected) ==
  pushInstr(W, m, [kind |-> "SoftMax", ops |-> <<dest, src, E, selected>>])

\* IRBuilder::createRegressionInst(dest, src, expected)
createRegressionInst(W, m, dest, src, expected) ==
  pushInstr(W, m, [kind |-> "Regression", ops |-> <<dest, src, expected>>])

\* IRBuilder::createReshapeInst(dest, src, shape)
createReshapeInst(W, m, dest, src, shape) ==
  pushInstr(W, m, [kind |-> "Reshape", ops |-> <<dest, src>>,
                   dims_ |-> shape])

\* IRBuilder::createTransposeInst(dest, src, shuffle)
createTransposeInst(W, m, dest, src, shuffle) ==
  pushInstr(W, m, [kind |-> "Transpose", ops |-> <<dest, src>>,
                   shuffle_ |-> shuffle])

\* IRBuilder::createConcatInst(dest, src, dim): the operands are the
\* destination followed by every source.
createConcatInst(W, m, dest, src, dim) ==
  pushInstr(W, m, [kind |-> "Concat", ops |-> <<dest>> \o src, dim_ |-> dim])

\* IRBuilder::createBatchNormalizationInst(dest, src, scale, bias, mean, var, ...)
createBatchNormalizationInst(W, m, dest, src, scale, bias, mean, var, channelIdx) ==
  pushInstr(W, m, [kind |-> "BatchNormalization",
                   ops |-> <<dest, src, scale, bias, mean, var>>,
                   channelIdx_ |-> channelIdx])

\* IRBuilder::createArithmeticInst(dest, LHS, RHS, kind)
createArithmeticInst(W, m, dest, LHS, RHS, kind) ==
  pushInstr(W, m, [kind |-> "Arithmetic", ops |-> <<dest, LHS, RHS>>,
                   kind_ |-> kind])

-----------------------------------------------------------------------------
(* High level operators.  Each returns the world it leaves and whether it   *)
(* completed (ok) or stopped at a failed assert().                          *)

\* The call ran to its return statement.
Done(W) == [W |-> W, ok |-> TRUE]

\* An assert() failed with the world as W.
Abort(W) == [W |-> W, ok |-> FALSE]

\* createConvOp with the filter shape built from depth in place of idim.c.
createConvOpBadFilter(W, m, input, depth, kernel, stride, pad) ==
  LET idim == ShapeNHWC(dims(W, input)) IN
  IF ~(idim.w >= kernel /\ idim.h >= kernel) THEN Abort(W) ELSE
  LET outSz == calculateOutputDims(idim.h, idim.w, pad, kernel, stride)
      outDims == <<idim.n, outSz[1], outSz[2], depth>>
      filterDim == <<depth, kernel, kernel, depth>>
      fanIn == kernel * kernel * idim.c
      filter == createStaticVariable(W, m, "FloatTy", filterDim, "filter",
                                     "kXavier", "kWeight", 10 * fanIn)
      bias == createStaticVariable(filter.W, m, "FloatTy", <<depth>>, "bias",
                                   "kBroadcast", "kWeight", 1)
      dest == createStaticVariableDef(bias.W, m, "FloatTy", outDims, "")
  IN Done(createConvolutionInst(dest.W, m, dest.ref, input, filter.ref,
                                bias.ref, kernel, stride, pad, depth))

\* createConvOp with the size assertion placed after the filter allocation.
createConvOpLateAssert(W, m, input, depth, kernel, stride, pad) ==
  LET idim == ShapeNHWC(dims(W, input))
      filterDim == <<depth, kernel, kernel, idim.c>>
      fanIn == kernel * kernel * idim.c
      filter == createStaticVariable(W, m, "FloatTy", filterDim, "filter",
                                     "kXavier", "kWeight", 10 * fanIn)
  IN
  IF ~(idim.w >= kernel /\ idim.h >= kernel) THEN Abort(filter.W) ELSE
  LET outSz == calculateOutputDims(idim.h, idim.w, pad, kernel, stride)
      outDims == <<idim.n, outSz[1], outSz[2], depth>>
      bias == createStaticVariable(filter.W, m, "FloatTy", <<depth>>, "bias",
                                   "kBroadcast", "kWeight", 1)
      dest == createStaticVariableDef(bias.W, m, "FloatTy", outDims, "")
  IN Done(createConvolutionInst(dest.W, m, dest.ref, input, filter.ref,
                                bias.ref, kernel, stride, pad, depth))

\* IRBuilder::createConvOp(input, depth, kernel, stride, pad)
createConvOp(W, m, input, depth, kernel, stride, pad) ==
  LET idim == ShapeNHWC(dims(W, input)) IN
  IF ~(idim.w >= kernel /\ idim.h >= kernel) THEN Abort(W) ELSE
  LET outSz == calculateOutputDims(idim.h, idim.w, pad, kernel, stride)
      outDims == <<idim.n, outSz[1], outSz[2], depth>>
      filterDim == <<depth, kernel, kernel, idim.c>>
      fanIn == kernel * kernel * idim.c
      filter == createStaticVariable(W, m, "FloatTy", filterDim, "filter",
                                     "kXavier", "kWeight", 10 * fanIn)
      bias == createStaticVariable(filter.W, m, "FloatTy", <<depth>>, "bias",
                                   "kBroadcast", "kWeight", 1)
      dest == createStaticVariableDef(bias.W, m, "FloatTy", outDims, "")
  IN Done(createConvolutionInst(dest.W, m, dest.ref, input, filter.ref,
                                bias.ref, kernel, stride, pad, depth))

\* IRBuilder::createPoolOp(input, kind, kernel, stride, pad)
createPoolOp(W, m, input, kind, kernel, stride, pad) ==
  LET idim == ShapeNHWC(dims(W, input)) IN
  IF ~(idim.w >= kernel /\ idim.h >= kernel) THEN Abort(W) ELSE
  LET outSz == calculateOutputDims(idim.h, idim.w, pad, kernel, stride)
      srcXY == IF kind = "kMax"
               THEN createStaticVariableDef(W, m, "IndexTy",
                      <<idim.n, outSz[1], outSz[2], idim.c, 2>>, "srcXY")
               ELSE createStaticVariableDef(W, m, "IndexTy", <<>>, "srcXY")
      dest == createStaticVariableDef(srcXY.W, m, "FloatTy",
                <<idim.n, outSz[1], outSz[2], idim.c>>, "")
  IN Done(createPoolInst(dest.W, m, dest.ref, input, srcXY.ref, kind, kernel,
                         stride, pad))

\* IRBuilder::createFullyConnectedOp(input, outDepth)
createFullyConnectedOp(W, m, input, outDepth) ==
  LET elemTy == getElementType(W, input)
      idim == flattenCdr(dims(W, input))
      fanIn == idim[2]
      Wt == createStaticVariable(W, m, elemTy, <<outDepth, idim[2]>>,
                                 "weights", "kXavier", "kWeight", 10 * fanIn)
      B == createStaticVariable(Wt.W, m, elemTy, <<outDepth>>, "bias",
                                "kBroadcast", "kWeight", 1)
      dest == createStaticVariableDef(B.W, m, elemTy, <<idim[1], outDepth>>, "")
  IN Done(createFullyConnectedInst(dest.W, m, dest.ref, input, Wt.ref, B.ref,
                                   outDepth))

\* createRELUOp that writes its result over the input instead of
\* allocating a result buffer.
createRELUOpInPlace(W, m, input) ==
  Done(createReluInst(W, m, input, input))

\* IRBuilder::createRELUOp(input)
createRELUOp(W, m, input) ==
  LET res == createStaticVariableTDef(W, m, getType(W, input), "")
  IN Done(createReluInst(res.W, m, res.ref, input))

\* IRBuilder::createSigmoidOp(input)
createSigmoidOp(W, m, input) ==
  LET res == createStaticVariableTDef(W, m, getType(W, input), "")
  IN Done(createSigmoidInst(res.W, m, res.ref, input))

\* IRBuilder::createTanhOp(input)
createTanhOp(W, m, input) ==
  LET res == createStaticVariableTDef(W, m, getType(W, input), "")
  IN Done(createTanhInst(res.W, m, res.ref, input))

\* IRBuilder::createSoftMaxOp(input, selected)
createSoftMaxOp(W, m, input, selected) ==
  LET res == createStaticVariableTDef(W, m, getType(W, input), "")
      E == createStaticVariableTDef(res.W, m, getType(W, input), "expected")
  IN Done(createSoftMaxInst(E.W, m, res.ref, input, E.ref, selected))

\* IRBuilder::createRegressionOp(input, expected)
createRegressionOp(W, m, input, expected) ==
  LET res == createStaticVariableTDef(W, m, getType(W, input), "")
  IN Done(createRegressionInst(res.W, m, res.ref, input, expected))

\* IRBuilder::createReshapeOp(input, shape)
createReshapeOp(W, m, input, shape) ==
  LET res == createStaticVariableDef(W, m, getElementType(W, input), shape, "")
  IN Done(createReshapeInst(res.W, m, res.ref, input, shape))

\* createTransposeOp that scatters instead of gathers:
\* shape[shuffle[i]] = dims[i].
createTransposeOpScatter(W, m, input, shuffle) ==
  LET d == dims(W, input)
      shape == [i \in 1..Len(d) |->
                  d[CHOOSE j \in 1..Len(d) : shuffle[j] + 1 = i]]
      res == createStaticVariableDef(W, m, getElementType(W, input), shape, "")
  IN Done(createTransposeInst(res.W, m, res.ref, input, shuffle))

\* IRBuilder::createTransposeOp(input, shuffle): shape[i] = dims[shuffle[i]],
\* with the source's indices counted from 0.
createTransposeOp(W, m, input, shuffle) ==
  LET d == dims(W, input)
      shape == [i \in 1..Len(d) |-> d[shuffle[i] + 1]]
      res == createStaticVariableDef(W, m, getElementType(W, input), shape, "")
  IN Done(createTransposeInst(res.W, m, res.ref, input, shuffle))

\* createConcatOp that adds the number of inputs to the extent.
createConcatOpAdd(W, m, inputs, dimension) ==
  LET inDim == dims(W, inputs[1]) IN
  IF \E i \in 1..Len(inputs) : dims(W, inputs[i]) # inDim THEN Abort(W) ELSE
  LET shape == [inDim EXCEPT ![dimension + 1] = @ + Len(inputs)]
      res == createStaticVariableDef(W, m, getElementType(W, inputs[1]),
                                     shape, "")
  IN Done(createConcatInst(res.W, m, res.ref, inputs, dimension))

\* IRBuilder::createConcatOp(inputs, dimension)
createConcatOp(W, m, inputs, dimension) ==
  LET inDim == dims(W, inputs[1]) IN
  IF \E i \in 1..Len(inputs) : dims(W, inputs[i]) # inDim THEN Abort(W) ELSE
  LET shape == [inDim EXCEPT ![dimension + 1] = @ * Len(inputs)]
      res == createStaticVariableDef(W, m, getElementType(W, inputs[1]),
                                     shape, "")
  IN Done(createConcatInst(res.W, m, res.ref, inputs, dimension))

\* IRBuilder::createBatchNormalizationOp(input, channelIdx, epsilon, momentum)
createBatchNormalizationOp(W, m, input, channelIdx) ==
  LET channels == dims(W, input)[channelIdx + 1]
      beta == createStaticVariable(W, m, "FloatTy", <<channels>>, "beta",
                                   "kBroadcast", "kWeight", 0)
      gamma == createStaticVariable(beta.W, m, "FloatTy", <<channels>>,
                                    "gamma", "kBroadcast", "kWeight", 10)
      mean == createStaticVariableDef(gamma.W, m, "FloatTy", <<channels>>,
                                      "mean")
      variance == createStaticVariableDef(mean.W, m, "FloatTy", <<channels>>,
                                          "variance")
      dest == createStaticVariableTDef(variance.W, m, getType(W, input), "")
  IN Done(createBatchNormalizationInst(dest.W, m, dest.ref, input, gamma.ref,
                                       beta.ref, mean.ref, variance.ref,
                                       channelIdx))

\* IRBuilder::createArithmeticOp(LHS, RHS, op)
createArithmeticOp(W, m, LHS, RHS, op) ==
  IF dims(W, LHS) # dims(W, RHS) THEN Abort(W) ELSE
  LET res == createStaticVariableTDef(W, m, getType(W, LHS), "")
  IN Done(createArithmeticInst(res.W, m, res.ref, LHS, RHS, op))

-----------------------------------------------------------------------------
(* Instruction::verify().  TRUE when every assert() of the routine passes.  *)

\* checkSameType(A, B): the two operands have the identical Type (pointer).
checkSameType(W, A, B) == getType(W, A) = getType(W, B)

\* ConvolutionInst::verify()
verifyConvolution(W, I) ==
  LET dest == I.ops[1]
      src == I.ops[2]
      filter == I.ops[3]
      bias == I.ops[4]
  IN /\ Len(dims(W, src)) = 4
     /\ Len(dims(W, dest)) = 4
     /\ LET idim == ShapeNHWC(dims(W, src))
            odim == ShapeNHWC(dims(W, dest))
        IN /\ idim.w >= I.kernel_ /\ idim.h >= I.kernel_
           /\ LET outSz == calculateOutputDims(idim.h, idim.w, I.pad_,
                                               I.kernel_, I.stride_)
                  exp == ShapeNHWC(<<idim.n, outSz[1], outSz[2], I.depth_>>)
              IN exp = odim
           /\ dims(W, filter) = <<I.depth_, I.kernel_, I.kernel_, idim.c>>
           /\ dims(W, bias) = <<I.depth_>>

\* PoolInst::verify()
verifyPool(W, I) ==
  LET dest == I.ops[1]
      src == I.ops[2]
      srcXY == I.ops[3]
  IN /\ Len(dims(W, src)) = 4
     /\ Len(dims(W, dest)) = 4
     /\ LET idim == ShapeNHWC(dims(W, src))
            odim == ShapeNHWC(dims(W, dest))
        IN /\ idim.w >= I.kernel_ /\ idim.h >= I.kernel_
           /\ LET outSz == calculateOutputDims(idim.h, idim.w, I.pad_,
                                               I.kernel_, I.stride_)
                  exp == ShapeNHWC(<<idim.n, outSz[1], outSz[2], idim.c>>)
              IN /\ exp = odim
                 /\ I.kind_ = "kMax" =>
                      dims(W, srcXY) =
                        <<idim.n, outSz[1], outSz[2], idim.c, 2>>

\* FullyConnectedInst::verify()
verifyFullyConnected(W, I) ==
  LET dest == I.ops[1]
      src == I.ops[2]
      Wt == I.ops[3]
      B == I.ops[4]
      idim == flattenCdr(dims(W, src))
  IN /\ dims(W, dest) = <<idim[1], I.depth_>>
     /\ dims(W, Wt) = <<I.depth_, idim[2]>>
     /\ dims(W, B) = <<I.depth_>>

\* ReshapeInst::verify() comparing the shapes themselves.
verifyReshapeSameDims(W, I) ==
  dims(W, I.ops[1]) = dims(W, I.ops[2])

\* ReshapeInst::verify()
verifyReshape(W, I) ==
  size(W, getType(W, I.ops[1])) = size(W, getType(W, I.ops[2]))

\* TransposeInst::verify()
verifyTranspose(W, I) ==
  LET dest == I.ops[1]
      src == I.ops[2]
      d == dims(W, src)
      shape == [i \in 1..Len(d) |-> d[I.shuffle_[i] + 1]]
  IN dims(W, dest) = shape

\* ConcatInst::verify() asking for more than two operands.
verifyConcatThreeOperands(W, I) ==
  /\ Len(I.ops) > 2
  /\ LET inDim == dims(W, I.ops[2])
     IN /\ \A i \in 3..Len(I.ops) : dims(W, I.ops[i]) = inDim
        /\ dims(W, I.ops[1]) =
             [inDim EXCEPT ![I.dim_ + 1] = @ * (Len(I.ops) - 1)]

\* ConcatInst::verify(): getNumOperands() counts the destination too.
verifyConcat(W, I) ==
  /\ Len(I.ops) > 1
  /\ LET inDim == dims(W, I.ops[2])
     IN /\ \A i \in 3..Len(I.ops) : dims(W, I.ops[i]) = inDim
        /\ dims(W, I.ops[1]) =
             [inDim EXCEPT ![I.dim_ + 1] = @ * (Len(I.ops) - 1)]

\* BatchNormalizationInst::verify()
verifyBatchNormalization(W, I) ==
  /\ checkSameType(W, I.ops[1], I.ops[2])
  /\ LET channels == dims(W, I.ops[1])[I.channelIdx_ + 1]
     IN \A k \in 3..6 : dims(W, I.ops[k]) = <<channels>>

\* ArithmeticInst::verify()
verifyArithmetic(W, I) ==
  /\ checkSameType(W, I.ops[1], I.ops[2])
  /\ checkSameType(W, I.ops[1], I.ops[3])

\* The verify() of the instruction's own kind.
verify(W, I) ==
  CASE I.kind = "Convolution" -> verifyConvolution(W, I)
    [] I.kind = "Pool" -> verifyPool(W, I)
    [] I.kind = "FullyConnected" -> verifyFullyConnected(W, I)
    [] I.kind = "Reshape" -> verifyReshape(W, I)
    [] I.kind = "Transpose" -> verifyTranspose(W, I)
    [] I.kind = "Concat" -> verifyConcat(W, I)
    [] I.kind = "BatchNormalization" -> verifyBatchNormalization(W, I)
    [] I.kind = "Arithmetic" -> verifyArithmetic(W, I)
    [] OTHER -> checkSameType(W, I.ops[1], I.ops[2])

-----------------------------------------------------------------------------
(* The client program: builder calls, one per step.  b is the module of the *)
(* IRBuilder called, Vs the values the client may pass, D the arguments it  *)
(* draws from.                                                              *)

Init ==
  /\ modTypes = [m \in Modules |-> <<>>]
  /\ modVars = [m \in Modules |-> <<>>]
  /\ modInstrs = [m \in Modules |-> <<>>]
  /\ aborted = FALSE
  /\ log = <<>>

\* One builder call c whose outcome is r: the world is left as the call left
\* it, and a failed assert() ends the program.
Call(c, r) ==
  /\ ~aborted
  /\ Len(log) < MaxCalls
  /\ log' = Append(log, c)
  /\ aborted' = ~r.ok
  /\ modTypes' = r.W.T
  /\ modVars' = r.W.V
  /\ modInstrs' = r.W.I

\* shuffle is a permutation of 0..n-1.
IsPerm(shuffle, n) ==
  /\ Len(shuffle) = n
  /\ \A i \in 1..n : shuffle[i] \in 0..(n - 1)
  /\ \A i, j \in 1..n : shuffle[i] = shuffle[j] => i = j

\* createStaticVariable(elemTy, dims) called by the client for an input.
CallCreateStaticVariable(b, D) ==
  \E t \in D.inputTypes :
    Call([op |-> "createStaticVariable", mod |-> b, args |-> t],
         Done(createStaticVariableDef(World, b, t[1], t[2], "input").W))

\* createStaticVariable(T) called by the client with the type of a value.
CallCreateStaticVariableT(b, Vs) ==
  \E v \in Vs :
    Call([op |-> "createStaticVariableT", mod |-> b, args |-> <<v>>],
         Done(createStaticVariableTDef(World, b, getType(World, v), "").W))

CallCreateConvOp(b, Vs, D) ==
  \E input \in Vs, p \in D.conv :
    /\ Len(dims(World, input)) = 4
    /\ Call([op |-> "createConvOp", mod |-> b, args |-> <<input, p>>],
            createConvOp(World, b, input, p.depth, p.kernel, p.stride, p.pad))

CallCreatePoolOp(b, Vs, D) ==
  \E input \in Vs, p \in D.pool :
    /\ Len(dims(World, input)) = 4
    /\ Call([op |-> "createPoolOp", mod |-> b, args |-> <<input, p>>],
            createPoolOp(World, b, input, p.kind, p.kernel, p.stride, p.pad))

CallCreateFullyConnectedOp(b, Vs, D) ==
  \E input \in Vs, outDepth \in D.fc :
    /\ Len(dims(World, input)) >= 1
    /\ Call([op |-> "createFullyConnectedOp", mod |-> b,
             args |-> <<input, outDepth>>],
            createFullyConnectedOp(World, b, input, outDepth))

CallCreateRELUOp(b, Vs) ==
  \E input \in Vs :
    Call([op |-> "createRELUOp", mod |-> b, args |-> <<input>>],
         createRELUOp(World, b, input))

CallCreateSigmoidOp(b, Vs) ==
  \E input \in Vs :
    Call([op |-> "createSigmoidOp", mod |-> b, args |-> <<input>>],
         createSigmoidOp(World, b, input))

CallCreateTanhOp(b, Vs) ==
  \E input \in Vs :
    Call([op |-> "createTanhOp", mod |-> b, args |-> <<input>>],
         createTanhOp(World, b, input))

CallCreateSoftMaxOp(b, Vs) ==
  \E input \in Vs, selected \in Vs :
    Call([op |-> "createSoftMaxOp", mod |-> b, args |-> <<input, selected>>],
         createSoftMaxOp(World, b, input, selected))

CallCreateRegressionOp(b, Vs) ==
  \E input \in Vs, expected \in Vs :
    Call([op |-> "createRegressionOp", mod |-> b,
          args |-> <<input, expected>>],
         createRegressionOp(World, b, input, expected))

CallCreateReshapeOp(b, Vs, D) ==
  \E input \in Vs, shape \in D.shapes :
    Call([op |-> "createReshapeOp", mod |-> b, args |-> <<input, shape>>],
         createReshapeOp(World, b, input, shape))

CallCreateTransposeOp(b, Vs, D) ==
  \E input \in Vs, shuffle \in D.shuffles :
    /\ IsPerm(shuffle, Len(dims(World, input)))
    /\ Call([op |-> "createTransposeOp", mod |-> b,
             args |-> <<input, shuffle>>],
            createTransposeOp(World, b, input, shuffle))

CallCreateConcatOp(b, Vs, D) ==
  \E inputs \in SeqsUpTo(Vs, D.concat), dimension \in D.axes :
    /\ dimension < Len(dims(World, inputs[1]))
    /\ Call([op |-> "createConcatOp", mod |-> b,
             args |-> <<inputs, dimension>>],
            createConcatOp(World, b, inputs, dimension))

CallCreateBatchNormalizationOp(b, Vs, D) ==
  \E input \in Vs, channelIdx \in D.axes :
    /\ channelIdx < Len(dims(World, input))
    /\ Call([op |-> "createBatchNormalizationOp", mod |-> b,
             args |-> <<input, channelIdx>>],
            createBatchNormalizationOp(World, b, input, channelIdx))

CallCreateArithmeticOp(b, Vs) ==
  \E LHS \in Vs, RHS \in Vs, op \in {"kAdd", "kMul"} :
    Call([op |-> "createArithmeticOp", mod |-> b, args |-> <<LHS, RHS, op>>],
         createArithmeticOp(World, b, LHS, RHS, op))

\* The low level constructors called by the client directly.  Where a
\* constructor takes more operands than dest and src, the client passes src
\* for each of them.

CallCreateCopyInst(b, Vs) ==
  \E dest \in Vs, src \in Vs :
    Call([op |-> "createCopyInst", mod |-> b, args |-> <<dest, src>>],
         Done(createCopyInst(World, b, dest, src)))

CallCreateConvolutionInst(b, Vs, D) ==
  \E dest \in Vs, src \in Vs, p \in D.conv :
    Call([op |-> "createConvolutionInst", mod |-> b,
          args |-> <<dest, src, p>>],
         Done(createConvolutionInst(World, b, dest, src, src, src, p.kernel,
                                    p.stride, p.pad, p.depth)))

CallCreatePoolInst(b, Vs, D) ==
  \E dest \in Vs, src \in Vs, p \in D.pool :
    Call([op |-> "createPoolInst", mod |-> b, args |-> <<dest, src, p>>],
         Done(createPoolInst(World, b, dest, src, src, p.kind, p.kernel,
                             p.stride, p.pad)))

CallCreateFullyConnectedInst(b, Vs, D) ==
  \E dest \in Vs, src \in Vs, depth \in D.fc :
    Call([op |-> "createFullyConnectedInst", mod |-> b,
          args |-> <<dest, src, depth>>],
         Done(createFullyConnectedInst(World, b, dest, src, src, src, depth)))

CallCreateReluInst(b, Vs) ==
  \E dest \in Vs, src \in Vs :
    Call([op |-> "createReluInst", mod |-> b, args |-> <<dest, src>>],
         Done(createReluInst(World, b, dest, src)))

CallCreateSigmoidInst(b, Vs) ==
  \E dest \in Vs, src \in Vs :
    Call([op |-> "createSigmoidInst", mod |-> b, args |-> <<dest, src>>],
         Done(createSigmoidInst(World, b, dest, src)))

CallCreateTanhInst(b, Vs) ==
  \E dest \in Vs, src \in Vs :
    Call([op |-> "createTanhInst", mod |-> b, args |-> <<dest, src>>],
         Done(createTanhInst(World, b, dest, src)))

CallCreateSoftMaxInst(b, Vs) ==
  \E dest \in Vs, src \in Vs :
    Call([op |-> "createSoftMaxInst", mod |-> b, args |-> <<dest, src>>],
         Done(createSoftMaxInst(World, b, dest, src, src, src)))

CallCreateRegressionInst(b, Vs) ==
  \E dest \in Vs, src \in Vs :
    Call([op |-> "createRegressionInst", mod |-> b, args |-> <<dest, src>>],
         Done(createRegressionInst(World, b, dest, src, src)))

CallCreateReshapeInst(b, Vs, D) ==
  \E dest \in Vs, src \in Vs, shape \in D.shapes :
    Call([op |-> "createReshapeInst", mod |-> b,
          args |-> <<dest, src, shape>>],
         Done(createReshapeInst(World, b, dest, src, shape)))

CallCreateTransposeInst(b, Vs, D) ==
  \E dest \in Vs, src \in Vs, shuffle \in D.shuffles :
    /\ IsPerm(shuffle, Len(dims(World, src)))
    /\ Call([op |-> "createTransposeInst", mod |-> b,
             args |-> <<dest, src, shuffle>>],
            Done(createTransposeInst(World, b, dest, src, shuffle)))

CallCreateConcatInst(b, Vs, D) ==
  \E dest \in Vs, src \in {<<>>} \cup SeqsUpTo(Vs, D.concat),
     dim \in D.axes :
    /\ src # <<>> => dim < Len(dims(World, src[1]))
    /\ Call([op |-> "createConcatInst", mod |-> b,
             args |-> <<dest, src, dim>>],
            Done(createConcatInst(World, b, dest, src, dim)))

CallCreateBatchNormalizationInst(b, Vs, D) ==
  \E dest \in Vs, src \in Vs, channelIdx \in D.axes :
    Call([op |-> "createBatchNormalizationInst", mod |-> b,
          args |-> <<dest, src, channelIdx>>],
         Done(createBatchNormalizationInst(World, b, dest, src, src, src,
                                           src, src, channelIdx)))

CallCreateArithmeticInst(b, Vs) ==
  \E dest \in Vs, src \in Vs, kind \in {"kAdd", "kMul"} :
    Call([op |-> "createArithmeticInst", mod |-> b,
          args |-> <<dest, src, kind>>],
         Done(createArithmeticInst(World, b, dest, src, src, kind)))

-----------------------------------------------------------------------------
(* Client programs *)

\* The value the builder of module m created last, if any.
Newest(m) ==
  IF modVars[m] = <<>> THEN {}
  ELSE {[mod |-> m, idx |-> Len(modVars[m])]}

\* The arguments of a client that uses every builder call on small tensors.
SmallArgs ==
  [inputTypes |-> {<<"FloatTy", <<1, 2, 2, 1>>>>, <<"IndexTy", <<2, 2>>>>},
   conv       |-> {[depth |-> 2, kernel |-> 2, stride |-> 1, pad |-> 0],
                   [depth |-> 2, kernel |-> 3, stride |-> 1, pad |-> 1]},
   pool       |-> {[kind |-> "kMax", kernel |-> 2, stride |-> 2, pad |-> 0],
                   [kind |-> "kAvg", kernel |-> 2, stride |-> 1, pad |-> 0]},
   fc         |-> {2},
   shapes     |-> {<<4>>, <<3, 2>>},
   shuffles   |-> {<<0>>, <<1, 0>>, <<0, 2, 1, 3>>},
   concat     |-> 2,
   axes       |-> {0}]

\* A client that builds several modules and passes any value of any module
\* to any builder.
Next ==
  \E b \in Modules :
    \/ CallCreateStaticVariable(b, SmallArgs)
    \/ CallCreateStaticVariableT(b, AllValues)
    \/ CallCreateConvOp(b, AllValues, SmallArgs)
    \/ CallCreatePoolOp(b, AllValues, SmallArgs)
    \/ CallCreateFullyConnectedOp(b, AllValues, SmallArgs)
    \/ CallCreateRELUOp(b, AllValues)
    \/ CallCreateSigmoidOp(b, AllValues)
    \/ CallCreateTanhOp(b, AllValues)
    \/ CallCreateSoftMaxOp(b, AllValues)
    \/ CallCreateRegressionOp(b, AllValues)
    \/ CallCreateReshapeOp(b, AllValues, SmallArgs)
    \/ CallCreateTransposeOp(b, AllValues, SmallArgs)
    \/ CallCreateConcatOp(b, AllValues, SmallArgs)
    \/ CallCreateBatchNormalizationOp(b, AllValues, SmallArgs)
    \/ CallCreateArithmeticOp(b, AllValues)
    \/ CallCreateCopyInst(b, AllValues)
    \/ CallCreateConvolutionInst(b, AllValues, SmallArgs)
    \/ CallCreatePoolInst(b, AllValues, SmallArgs)
    \/ CallCreateFullyConnectedInst(b, AllValues, SmallArgs)
    \/ CallCreateReluInst(b, AllValues)
    \/ CallCreateSigmoidInst(b, AllValues)
    \/ CallCreateTanhInst(b, AllValues)
    \/ CallCreateSoftMaxInst(b, AllValues)
    \/ CallCreateRegressionInst(b, AllValues)
    \/ CallCreateReshapeInst(b, AllValues, SmallArgs)
    \/ CallCreateTransposeInst(b, AllValues, SmallArgs)
    \/ CallCreateConcatInst(b, AllValues, SmallArgs)
    \/ CallCreateBatchNormalizationInst(b, AllValues, SmallArgs)
    \/ CallCreateArithmeticInst(b, AllValues)

Spec == Init /\ [][Next]_vars

\* A client that builds one module, each call taking the value created last.
NextOne ==
  \/ CallCreateStaticVariable(1, SmallArgs)
  \/ CallCreateStaticVariableT(1, Newest(1))
  \/ CallCreateConvOp(1, Newest(1), SmallArgs)
  \/ CallCreatePoolOp(1, Newest(1), SmallArgs)
  \/ CallCreateFullyConnectedOp(1, Newest(1), SmallArgs)
  \/ CallCreateRELUOp(1, Newest(1))
  \/ CallCreateSigmoidOp(1, Newest(1))
  \/ CallCreateTanhOp(1, Newest(1))
  \/ CallCreateSoftMaxOp(1, Newest(1))
  \/ CallCreateRegressionOp(1, Newest(1))
  \/ CallCreateReshapeOp(1, Newest(1), SmallArgs)
  \/ CallCreateTransposeOp(1, Newest(1), SmallArgs)
  \/ CallCreateConcatOp(1, Newest(1), SmallArgs)
  \/ CallCreateBatchNormalizationOp(1, Newest(1), SmallArgs)
  \/ CallCreateArithmeticOp(1, Newest(1))
  \/ CallCreateCopyInst(1, Newest(1))
  \/ CallCreateConvolutionInst(1, Newest(1), SmallArgs)
  \/ CallCreatePoolInst(1, Newest(1), SmallArgs)
  \/ CallCreateFullyConnectedInst(1, Newest(1), SmallArgs)
  \/ CallCreateReluInst(1, Newest(1))
  \/ CallCreateSigmoidInst(1, Newest(1))
  \/ CallCreateTanhInst(1, Newest(1))
  \/ CallCreateSoftMaxInst(1, Newest(1))
  \/ CallCreateRegressionInst(1, Newest(1))
  \/ CallCreateReshapeInst(1, Newest(1), SmallArgs)
  \/ CallCreateTransposeInst(1, Newest(1), SmallArgs)
  \/ CallCreateConcatInst(1, Newest(1), SmallArgs)
  \/ CallCreateBatchNormalizationInst(1, Newest(1), SmallArgs)
  \/ CallCreateArithmeticInst(1, Newest(1))

SpecOne == Init /\ [][NextOne]_vars

\* The first two values of module m (the client's inputs).
FirstTwo(m) ==
  {[mod |-> m, idx |-> i] : i \in 1..(IF Len(modVars[m]) < 2
                                       THEN Len(modVars[m]) ELSE 2)}

\* A client of the operators that assert a precondition, which it may violate.
AbortArgs ==
  [inputTypes |-> {<<"FloatTy", <<1, 2, 2, 1>>>>, <<"FloatTy", <<1, 3, 2, 1>>>>,
                   <<"IndexTy", <<1, 2, 2, 1>>>>},
   conv       |-> {[depth |-> 2, kernel |-> 2, stride |-> 1, pad |-> 0],
                   [depth |-> 1, kernel |-> 3, stride |-> 1, pad |-> 1]},
   pool       |-> {[kind |-> "kMax", kernel |-> 2, stride |-> 1, pad |-> 0],
                   [kind |-> "kAvg", kernel |-> 3, stride |-> 1, pad |-> 1]},
   concat     |-> 2,
   axes       |-> {0, 1}]

NextAbort ==
  \/ CallCreateStaticVariable(1, AbortArgs)
  \/ CallCreateConvOp(1, ValuesOf(1), AbortArgs)
  \/ CallCreatePoolOp(1, ValuesOf(1), AbortArgs)
  \/ CallCreateConcatOp(1, ValuesOf(1), AbortArgs)
  \/ CallCreateArithmeticOp(1, ValuesOf(1))

SpecAbort == Init /\ [][NextAbort]_vars

\* A client that builds convolutions.
ConvArgs ==
  [inputTypes |-> {<<"FloatTy", <<1, 32, 32, 3>>>>, <<"FloatTy", <<2, 7, 4, 3>>>>},
   conv       |-> {[depth |-> 16, kernel |-> 5, stride |-> 1, pad |-> 2],
                   [depth |-> 2, kernel |-> 3, stride |-> 2, pad |-> 1],
                   [depth |-> 3, kernel |-> 4, stride |-> 3, pad |-> 0],
                   [depth |-> 1, kernel |-> 2, stride |-> 2, pad |-> 0],
                   [depth |-> 4, kernel |-> 1, stride |-> 1, pad |-> 0]}]

NextConv ==
  \/ CallCreateStaticVariable(1, ConvArgs)
  \/ CallCreateConvOp(1, ValuesOf(1), ConvArgs)

SpecConv == Init /\ [][NextConv]_vars

\* A client that builds concatenations of its inputs.
ConcatArgs ==
  [inputTypes |-> {<<"FloatTy", <<2, 4, 4, 6>>>>, <<"IndexTy", <<2, 3>>>>},
   concat     |-> MaxConcat,
   axes       |-> {0, 1, 3}]

\* The arguments of its direct createConcatInst calls.
ConcatInstArgs ==
  [concat |-> 1, axes |-> {0}]

NextConcat ==
  \/ CallCreateStaticVariable(1, ConcatArgs)
  \/ CallCreateConcatOp(1, FirstTwo(1), ConcatArgs)
  \/ CallCreateConcatInst(1, FirstTwo(1), ConcatInstArgs)

SpecConcat == Init /\ [][NextConcat]_vars

\* A client that builds transposes, with every permutation of the axes.
TransposeArgs ==
  [inputTypes |-> {<<"FloatTy", <<2, 3, 4>>>>, <<"IndexTy", <<5, 6>>>>,
                   <<"FloatTy", <<7>>>>},
   shuffles   |-> Perms(1) \cup Perms(2) \cup Perms(3)]

NextTranspose ==
  \/ CallCreateStaticVariable(1, TransposeArgs)
  \/ CallCreateTransposeOp(1, ValuesOf(1), TransposeArgs)

SpecTranspose == Init /\ [][NextTranspose]_vars

\* A client that builds reshapes.
ReshapeArgs ==
  [inputTypes |-> {<<"FloatTy", <<2, 3>>>>, <<"IndexTy", <<4>>>>},
   shapes     |-> {<<6>>, <<3, 2>>, <<2, 3>>, <<1, 6, 1>>, <<2, 2>>, <<4>>,
                   <<0, 5>>, <<0>>, <<>>}]

NextReshape ==
  \/ CallCreateStaticVariable(1, ReshapeArgs)
  \/ CallCreateReshapeOp(1, ValuesOf(1), ReshapeArgs)

SpecReshape == Init /\ [][NextReshape]_vars

-----------------------------------------------------------------------------
(* Properties *)

\* A client that declares buffers and then uses only the high-level
\* operators of one builder, passing any buffer of the module as an input.
NextHigh ==
  \/ CallCreateStaticVariable(1, SmallArgs)
  \/ CallCreateStaticVariableT(1, ValuesOf(1))
  \/ CallCreateConvOp(1, ValuesOf(1), SmallArgs)
  \/ CallCreatePoolOp(1, ValuesOf(1), SmallArgs)
  \/ CallCreateFullyConnectedOp(1, ValuesOf(1), SmallArgs)
  \/ CallCreateRELUOp(1, ValuesOf(1))
  \/ CallCreateSigmoidOp(1, ValuesOf(1))
  \/ CallCreateTanhOp(1, ValuesOf(1))
  \/ CallCreateSoftMaxOp(1, ValuesOf(1))
  \/ CallCreateRegressionOp(1, ValuesOf(1))
  \/ CallCreateReshapeOp(1, ValuesOf(1), SmallArgs)
  \/ CallCreateTransposeOp(1, ValuesOf(1), SmallArgs)
  \/ CallCreateConcatOp(1, ValuesOf(1), SmallArgs)
  \/ CallCreateBatchNormalizationOp(1, ValuesOf(1), SmallArgs)
  \/ CallCreateArithmeticOp(1, ValuesOf(1))

SpecHigh == Init /\ [][NextHigh]_vars

\* The call made last.
LastCall == log[Len(log)]

\* The instruction pushed last to the module of the call made last.
LastInstr ==
  LET m == LastCall.mod IN modInstrs[m][Len(modInstrs[m])]

\* The call made last was opname and it returned.
Completed(opname) == log # <<>> /\ ~aborted /\ LastCall.op = opname

HighLevelOps ==
  {"createConvOp", "createPoolOp", "createFullyConnectedOp", "createRELUOp",
   "createSigmoidOp", "createTanhOp", "createSoftMaxOp", "createRegressionOp",
   "createReshapeOp", "createTransposeOp", "createConcatOp",
   "createBatchNormalizationOp", "createArithmeticOp"}

\* C1: immediately after a high-level operator returns, verify() of the
\* instruction it emitted succeeds.
C1_VerifyAfterConstruction ==
  (log # <<>> /\ ~aborted /\ LastCall.op \in HighLevelOps)
    => verify(World, LastInstr)

\* The instruction kind a builder call asks for ("none": a declaration only).
KindOf(op) ==
  CASE op \in {"createConvOp", "createConvolutionInst"} -> "Convolution"
    [] op \in {"createPoolOp", "createPoolInst"} -> "Pool"
    [] op \in {"createFullyConnectedOp", "createFullyConnectedInst"}
         -> "FullyConnected"
    [] op \in {"createRELUOp", "createReluInst"} -> "Relu"
    [] op \in {"createSigmoidOp", "createSigmoidInst"} -> "Sigmoid"
    [] op \in {"createTanhOp", "createTanhInst"} -> "Tanh"
    [] op \in {"createSoftMaxOp", "createSoftMaxInst"} -> "SoftMax"
    [] op \in {"createRegressionOp", "createRegressionInst"} -> "Regression"
    [] op \in {"createReshapeOp", "createReshapeInst"} -> "Reshape"
    [] op \in {"createTransposeOp", "createTransposeInst"} -> "Transpose"
    [] op \in {"createConcatOp", "createConcatInst"} -> "Concat"
    [] op \in {"createBatchNormalizationOp", "createBatchNormalizationInst"}
         -> "BatchNormalization"
    [] op \in {"createArithmeticOp", "createArithmeticInst"} -> "Arithmetic"
    [] op = "createCopyInst" -> "Copy"
    [] OTHER -> "none"

\* The calls that returned.
CompletedCalls == IF aborted THEN SubSeq(log, 1, Len(log) - 1) ELSE log

\* The instruction kinds the returned calls on module m asked for, in order.
RequestedKinds(m) ==
  LET emits(c) == c.mod = m /\ KindOf(c.op) # "none"
      sel == SelectSeq(CompletedCalls, emits)
  IN [i \in 1..Len(sel) |-> KindOf(sel[i].op)]

\* The kinds of the instructions of module m, in list order.
InstrKinds(m) == [i \in 1..Len(modInstrs[m]) |-> modInstrs[m][i].kind]

\* A step leaves the list of module m alone or appends one instruction.
AppendsOnly(m) ==
  \/ modInstrs'[m] = modInstrs[m]
  \/ /\ Len(modInstrs'[m]) = Len(modInstrs[m]) + 1
     /\ SubSeq(modInstrs'[m], 1, Len(modInstrs[m])) = modInstrs[m]

\* C2: the instruction list of a module holds one instruction per returned
\* call, of the kind the call asked for, in call order, and a call only
\* appends to it.
C2_InstructionOrderIsCallOrder ==
  /\ [](\A m \in Modules : InstrKinds(m) = RequestedKinds(m))
  /\ [][\A m \in Modules : AppendsOnly(m)]_vars

\* Two instructions of different kinds were emitted, in call order.
C2_Witness ==
  /\ ~aborted
  /\ Len(modInstrs[1]) >= 2
  /\ modInstrs[1][1].kind # modInstrs[1][2].kind
  /\ \E i \in 1..Len(modInstrs[1]) : modInstrs[1][i].kind = "Copy"

\* The call c violates the precondition its operator asserts.
ViolatesPrecondition(c) ==
  CASE c.op \in {"createConvOp", "createPoolOp"} ->
         LET d == dims(World, c.args[1])
         IN c.args[2].kernel > d[2] \/ c.args[2].kernel > d[3]
    [] c.op = "createConcatOp" ->
         \E i \in 1..Len(c.args[1]) :
           dims(World, c.args[1][i]) # dims(World, c.args[1][1])
    [] c.op = "createArithmeticOp" ->
         dims(World, c.args[1]) # dims(World, c.args[2])
    [] OTHER -> FALSE

\* C3: a call that violates its precondition aborts, and the aborting call
\* adds neither an instruction nor a buffer declaration to the module.
C3_AbortLeavesModuleUntouched ==
  /\ []((log # <<>> /\ ViolatesPrecondition(LastCall)) => aborted)
  /\ [][aborted' => (modVars' = modVars /\ modInstrs' = modInstrs)]_vars

\* A createConvOp call with a kernel larger than the input has aborted.
C3_Witness ==
  /\ aborted
  /\ LastCall.op = "createConvOp"
  /\ ViolatesPrecondition(LastCall)
  /\ modVars[1] # <<>>

\* C4: every operand of every instruction of a module is a value of that
\* module.
C4_NoCrossModuleOperand ==
  \A m \in Modules : \A i \in 1..Len(modInstrs[m]) :
    \A k \in 1..Len(modInstrs[m][i].ops) : modInstrs[m][i].ops[k].mod = m

\* C5: createConvOp on an input {N,H,W,C} with H, W >= kernel emits a
\* convolution whose output is {N, (H+2*pad-kernel) div stride + 1,
\* (W+2*pad-kernel) div stride + 1, depth}, whose filter is a Weight
\* {depth,kernel,kernel,C} initialized Xavier with fan-in kernel*kernel*C and
\* whose bias is a Weight {depth} initialized Broadcast(0.1); the input
\* (1,32,32,3) with kernel 5, stride 1, pad 2, depth 16 gives (1,32,32,16),
\* (16,5,5,3) and (16).
C5_ConvShapes ==
  Completed("createConvOp") =>
    LET input == LastCall.args[1]
        p == LastCall.args[2]
        s == dims(World, input)
        I == LastInstr
        dest == I.ops[1]
        filter == modVars[I.ops[3].mod][I.ops[3].idx]
        bias == modVars[I.ops[4].mod][I.ops[4].idx]
    IN /\ I.kind = "Convolution"
       /\ I.ops[2] = input
       /\ dims(World, dest) =
            << s[1], ((s[2] + 2 * p.pad - p.kernel) \div p.stride) + 1,
               ((s[3] + 2 * p.pad - p.kernel) \div p.stride) + 1, p.depth >>
       /\ dims(World, I.ops[3]) = <<p.depth, p.kernel, p.kernel, s[4]>>
       /\ filter.shareKind = "kWeight"
       /\ filter.initKind = "kXavier"
       /\ filter.val = 10 * (p.kernel * p.kernel * s[4])
       /\ dims(World, I.ops[4]) = <<p.depth>>
       /\ bias.shareKind = "kWeight"
       /\ bias.initKind = "kBroadcast"
       /\ bias.val = 1
       /\ verifyConvolution(World, I)
       /\ (s = <<1, 32, 32, 3>> /\
           p = [depth |-> 16, kernel |-> 5, stride |-> 1, pad |-> 2])
            => /\ dims(World, dest) = <<1, 32, 32, 16>>
               /\ dims(World, I.ops[3]) = <<16, 5, 5, 3>>
               /\ dims(World, I.ops[4]) = <<16>>

\* The example convolution was built, after one whose stride does not
\* divide the padded extent: (32 - 4) div 3 + 1 = 10.
C5_Witness ==
  /\ Completed("createConvOp")
  /\ dims(World, LastCall.args[1]) = <<1, 32, 32, 3>>
  /\ LastCall.args[2] = [depth |-> 16, kernel |-> 5, stride |-> 1, pad |-> 2]
  /\ \E i \in 1..Len(modInstrs[1]) :
       /\ modInstrs[1][i].stride_ = 3
       /\ dims(World, modInstrs[1][i].ops[1]) = <<1, 10, 10, 3>>

\* C6: createConcatOp on N inputs of one shape S and an axis k emits a concat
\* whose output is S with S[k] multiplied by N, and ConcatInst::verify, which
\* recomputes the shape from its operand count less one, accepts it; three
\* inputs of (2,4,4,6) on axis 3 give (2,4,4,18).
C6_ConcatShape ==
  Completed("createConcatOp") =>
    LET inputs == LastCall.args[1]
        k == LastCall.args[2]
        S == dims(World, inputs[1])
        N == Len(inputs)
        I == LastInstr
        out == dims(World, I.ops[1])
    IN /\ I.kind = "Concat"
       /\ Tail(I.ops) = inputs
       /\ Len(I.ops) - 1 = N
       /\ Len(out) = Len(S)
       /\ \A a \in 1..Len(S) : out[a] = IF a = k + 1 THEN S[a] * N ELSE S[a]
       /\ verifyConcat(World, I)
       /\ (S = <<2, 4, 4, 6>> /\ N = 3 /\ k = 3) => out = <<2, 4, 4, 18>>

\* Three inputs of shape (2,4,4,6) were concatenated on axis 3.
C6_Witness ==
  /\ Completed("createConcatOp")
  /\ Len(LastCall.args[1]) = 3
  /\ LastCall.args[2] = 3
  /\ dims(World, LastCall.args[1][1]) = <<2, 4, 4, 6>>

\* The Concat instructions of module m.
Concats(m) ==
  {i \in 1..Len(modInstrs[m]) : modInstrs[m][i].kind = "Concat"}

\* C7 as stated: no Concat with exactly one source operand is in the module
\* and accepted by verify().
C7_NoOneSourceConcatAccepted ==
  \A i \in Concats(1) :
    Len(modInstrs[1][i].ops) = 2 => ~verify(World, modInstrs[1][i])

\* C7: a Concat needs at least 2 operands, the destination and at least one
\* source: verify() rejects every Concat without a source, and the Concat that
\* createConcatOp builds from a single input is appended and accepted.
C7_ConcatNeedsOneSource ==
  /\ \A i \in Concats(1) :
       Len(modInstrs[1][i].ops) = 1 => ~verify(World, modInstrs[1][i])
  /\ (Completed("createConcatOp") /\ Len(LastCall.args[1]) = 1)
       => /\ LastInstr.kind = "Concat"
          /\ Len(LastInstr.ops) = 2
          /\ verify(World, LastInstr)

\* A Concat without a source is in the module, and createConcatOp has just
\* built a Concat from a single input.
C7_Witness ==
  /\ Completed("createConcatOp")
  /\ Len(LastCall.args[1]) = 1
  /\ \E i \in Concats(1) : Len(modInstrs[1][i].ops) = 1

\* C8: in one module, two buffer declarations of the same element kind and
\* shape have the identical Type, and two of different shape never do.
C8_TypeInterning ==
  \A i, j \in 1..Len(modVars[1]) :
    LET x == [mod |-> 1, idx |-> i]
        y == [mod |-> 1, idx |-> j]
    IN /\ (getElementType(World, x) = getElementType(World, y) /\
           dims(World, x) = dims(World, y))
            => getType(World, x) = getType(World, y)
       /\ dims(World, x) # dims(World, y)
            => getType(World, x) # getType(World, y)

\* Three declarations share one Type: two made by the (elemTy, dims)
\* overload and, between them, one made by the TypeRef overload; and a
\* declaration of another shape has another Type.
C8_Witness ==
  \E i, j, k \in 1..Len(modVars[1]) :
    /\ i < j /\ j < k
    /\ modVars[1][i].type = modVars[1][j].type
    /\ modVars[1][j].type = modVars[1][k].type
    /\ modVars[1][i].name = "input"
    /\ modVars[1][k].name = "input"
    /\ modVars[1][j].name = ""

\* The inverse of the permutation p of 0..n-1.
Inverse(p) ==
  [i \in 1..Len(p) |-> (CHOOSE j \in 1..Len(p) : p[j] = i - 1) - 1]

\* The Transpose instructions of module m.
Transposes(m) ==
  {i \in 1..Len(modInstrs[m]) : modInstrs[m][i].kind = "Transpose"}

\* Instruction j transposes the output of instruction i with the inverse of
\* the permutation of i.
RoundTrip(i, j) ==
  /\ modInstrs[1][j].ops[2] = modInstrs[1][i].ops[1]
  /\ modInstrs[1][j].shuffle_ = Inverse(modInstrs[1][i].shuffle_)

\* C9: createTransposeOp(input, p) emits a transpose with
\* output[i] = input[p[i]] on every axis, TransposeInst::verify accepts it,
\* and transposing the output with the inverse of p gives the input's shape.
C9_TransposeRoundTrip ==
  /\ Completed("createTransposeOp") =>
       LET input == LastCall.args[1]
           p == LastCall.args[2]
           I == LastInstr
           out == dims(World, I.ops[1])
       IN /\ I.kind = "Transpose"
          /\ I.ops[2] = input
          /\ I.shuffle_ = p
          /\ Len(out) = Len(dims(World, input))
          /\ \A a \in 1..Len(out) : out[a] = dims(World, input)[p[a] + 1]
          /\ verifyTranspose(World, I)
  /\ \A i, j \in Transposes(1) :
       RoundTrip(i, j) =>
         dims(World, modInstrs[1][j].ops[1]) =
           dims(World, modInstrs[1][i].ops[2])

\* A transpose by a permutation that is not its own inverse, of a shape it
\* changes, was undone by a second transpose.
C9_Witness ==
  \E i, j \in Transposes(1) :
    /\ RoundTrip(i, j)
    /\ modInstrs[1][i].shuffle_ # Inverse(modInstrs[1][i].shuffle_)
    /\ dims(World, modInstrs[1][i].ops[1]) #
         dims(World, modInstrs[1][i].ops[2])
    /\ dims(World, modInstrs[1][j].ops[1]) = <<2, 3, 4>>

\* C10: the reshape emitted by createReshapeOp(input, s2) has an output of
\* shape s2 with the input's element kind, and ReshapeInst::verify succeeds
\* exactly when the extents of the input's shape and of s2 have the same
\* product.
C10_ReshapeVerifiesIffSameCount ==
  Completed("createReshapeOp") =>
    LET input == LastCall.args[1]
        s2 == LastCall.args[2]
        I == LastInstr
    IN /\ I.kind = "Reshape"
       /\ I.ops[2] = input
       /\ dims(World, I.ops[1]) = s2
       /\ getElementType(World, I.ops[1]) = getElementType(World, input)
       /\ verifyReshape(World, I) <=> (Prod(dims(World, input)) = Prod(s2))

\* The module holds a reshape into another shape of the same element count,
\* which verifies, and the last call built one of another count, which does
\* not.
C10_Witness ==
  /\ Completed("createReshapeOp")
  /\ Prod(dims(World, LastCall.args[1])) # Prod(LastCall.args[2])
  /\ ~verifyReshape(World, LastInstr)
  /\ \E i \in 1..Len(modInstrs[1]) :
       /\ dims(World, modInstrs[1][i].ops[1]) #
            dims(World, modInstrs[1][i].ops[2])
       /\ verifyReshape(World, modInstrs[1][i])

\* The Values passed as inputs to the call c.
InputValues(c) ==
  CASE c.op = "createConcatOp" ->
         {c.args[1][i] : i \in 1..Len(c.args[1])}
    [] c.op \in {"createSoftMaxOp", "createRegressionOp",
                 "createArithmeticOp"} ->
         {c.args[1], c.args[2]}
    [] OTHER -> {c.args[1]}

\* C11: every high-level operator that returns emits one instruction whose
\* operand 0 is a buffer declared in the module by that same call: it did not
\* exist before the call and is none of the call's inputs; hence no two
\* instructions of a module built by high-level calls share operand 0.
C11_FreshDestination ==
  /\ [][(log' # log /\ ~aborted' /\ log'[Len(log')].op \in HighLevelOps) =>
         LET c == log'[Len(log')]
             m == c.mod
             dest == modInstrs'[m][Len(modInstrs'[m])].ops[1]
         IN /\ Len(modInstrs'[m]) = Len(modInstrs[m]) + 1
            /\ dest.mod = m
            /\ dest.idx > Len(modVars[m])
            /\ dest.idx <= Len(modVars'[m])
            /\ dest \notin ValuesOf(m)
            /\ dest \notin InputValues(c)]_vars
  /\ [](\A m \in Modules : \A i, j \in 1..Len(modInstrs[m]) :
         i # j => modInstrs[m][i].ops[1] # modInstrs[m][j].ops[1])

\* Two high-level operators have returned after reading the same input, and
\* each wrote a destination of its own.
C11_Witness ==
  /\ ~aborted
  /\ Len(modInstrs[1]) = 2
  /\ \A i \in 1..Len(log) : log[i].op \in HighLevelOps \cup
                                           {"createStaticVariable"}
  /\ modInstrs[1][1].ops[2] = modInstrs[1][2].ops[2]
  /\ modInstrs[1][1].ops[1] # modInstrs[1][2].ops[1]

=============================================================================
